---- MODULE Spec2Model ----
(***************************************************************************)
(* chatterbox (src/src/main.rs): a duplex text chat over one TCP stream.   *)
(* Two threads share the message log (a Mutex<Vec<String>>) and the two    *)
(* process-wide atomics TERMINATE and REDRAW: the receiver thread          *)
(* (reciever) and the event loop of run_app on the main thread.            *)
(*                                                                         *)
(* A String is modelled as its UTF-8 bytes (a sequence of numbers), so     *)
(* that byte offsets and character offsets are different things, as they   *)
(* are in the program.                                                     *)
(***************************************************************************)
EXTENDS Integers, Sequences, FiniteSets, TLC

VARIABLES
    input,            \* App.input: the bytes of the input String
    cursor_position,  \* App.cursor_position (usize)
    input_mode,       \* App.input_mode: "Normal" | "Editing"
    messages,         \* the Vec<String> inside App.messages
    lockHolder,       \* who holds the Mutex of App.messages: "none" | "main" | "recv"
    TERMINATE,        \* static TERMINATE: AtomicBool
    REDRAW,           \* static REDRAW: AtomicBool
    mainpc,           \* position of the main thread in run_app
    recvpc,           \* position of the receiver thread in reciever
    buf,              \* reciever's local String buf
    inbound,          \* bytes written by the peer and not yet read by reciever
    inClosed,         \* the peer has closed its write half
    outbound,         \* every byte run_app has written to the stream
    screen,           \* the last terminal.draw: [log, input] shown, of a log of seen entries
    wireHist,         \* history: every byte the peer has written
    nKeys,            \* history: key events delivered to the event loop
    nSubmit,          \* history: calls of App::submit_message
    nRecv,            \* history: non-empty records returned by read_line
    hadReadErr,       \* history: read_line has returned Err
    fresh,            \* history: a producer stored REDRAW since the last successful test-and-clear
    claimed,          \* history: this iteration's compare_exchange returned Ok(true)
    drawsInIter,      \* history: terminal.draw calls in the current loop iteration
    termStores,       \* history: stores to TERMINATE
    recvOps,          \* history: flips at every read, push and store done by reciever
    unrendered,       \* history: a producer stored REDRAW and no draw has completed since
    peerSubmitted,    \* history: the inputs the peer's submit_message has sent
    term,             \* the terminal: [raw, alt], raw mode and alternate screen are on
    poisoned,         \* the Mutex of App.messages is poisoned
    inBroken,         \* the read half is broken: every read returns Err
    lastWrite         \* history: how the last write_all ended: "none" | "ok" | "err"

vars == <<input, cursor_position, input_mode, messages, lockHolder, TERMINATE,
          REDRAW, mainpc, recvpc, buf, inbound, inClosed, outbound, screen,
          wireHist, nKeys, nSubmit, nRecv, hadReadErr, fresh, claimed,
          drawsInIter, termStores, recvOps, unrendered, peerSubmitted,
          term, poisoned, inBroken, lastWrite>>

editorVars == <<input, cursor_position, input_mode>>
histMain == <<nKeys, nSubmit, claimed, drawsInIter, lastWrite>>
histFlag == <<fresh, unrendered>>
histRecv == <<nRecv, hadReadErr, termStores, recvOps>>
peerVars == <<inbound, inClosed, wireHist, peerSubmitted, inBroken>>

----------------------------------------------------------------------------
(* Bounds of the model *)

\* key events of one run of the chat
MaxKeys == 3
\* bytes an arbitrary peer writes in one run of the chat
MaxChatWire == 2
\* bytes an arbitrary peer writes in one run with an idle keyboard
MaxWire == 4
\* key events of one run of the editor scenario
MaxEdKeys == 4
\* key events and peer bytes of one run of the scenario checked under fairness
MaxFairKeys == 2
MaxFairWire == 1
\* messages a peer running this program submits in one run
MaxPeerMsgs == 2
\* rows of the message area (chunks[0].height), a property of the terminal
Height == 2
\* ceiling of the saturating history counters
CounterCap == 2

----------------------------------------------------------------------------
(* Bytes and strings *)

\* the line delimiter of BufRead::read_line
NL == 10

\* the chars the keyboard and the peer use in the model, as UTF-8 bytes:
\* 'a', 'i', 'q', ' ' and U+00E9 (a two-byte code point)
CharA == <<97>>
CharI == <<105>>
CharQ == <<113>>
CharSP == <<32>>
CharEAcute == <<195, 169>>

Min(a, b) == IF a <= b THEN a ELSE b
Max(a, b) == IF a >= b THEN a ELSE b
Bump(n) == Min(n + 1, CounterCap)

\* a UTF-8 continuation byte (10xxxxxx)
IsContinuation(b) == b >= 128 /\ b <= 191

\* str::is_char_boundary(idx), idx counted from 0
IsCharBoundary(s, idx) ==
    \/ idx = 0
    \/ idx = Len(s)
    \/ idx < Len(s) /\ ~IsContinuation(s[idx + 1])

\* width in bytes of the code point that starts with byte b
CharWidth(b) ==
    IF b < 128 THEN 1 ELSE IF b < 224 THEN 2 ELSE IF b < 240 THEN 3 ELSE 4

\* str::chars(): the code points of s, each as its bytes
RECURSIVE Chars(_)
Chars(s) ==
    IF s = <<>> THEN <<>>
    ELSE LET w == Min(CharWidth(s[1]), Len(s))
         IN  <<SubSeq(s, 1, w)>> \o Chars(SubSeq(s, w + 1, Len(s)))

\* collect::<String>() of a sequence of chars
RECURSIVE Collect(_)
Collect(cs) == IF cs = <<>> THEN <<>> ELSE Head(cs) \o Collect(Tail(cs))

\* Iterator::take(n) and Iterator::skip(n)
Take(cs, n) == SubSeq(cs, 1, Min(n, Len(cs)))
Skip(cs, n) == SubSeq(cs, Min(n, Len(cs)) + 1, Len(cs))

\* char::is_whitespace for the bytes of the model
IsWhitespace(b) == b \in {9, 10, 11, 12, 13, 32}

\* str::trim(): leading and trailing whitespace removed
RECURSIVE TrimStart(_)
TrimStart(s) ==
    IF s # <<>> /\ IsWhitespace(s[1]) THEN TrimStart(Tail(s)) ELSE s
RECURSIVE TrimEnd(_)
TrimEnd(s) ==
    IF s # <<>> /\ IsWhitespace(s[Len(s)]) THEN TrimEnd(SubSeq(s, 1, Len(s) - 1)) ELSE s
Trim(s) == TrimEnd(TrimStart(s))

\* Vec::push
Push(v, x) == Append(v, x)

\* String::insert(idx, ch) when idx is a char boundary
StrInsert(s, idx, ch) == SubSeq(s, 1, idx) \o ch \o SubSeq(s, idx + 1, Len(s))

\* index of the first newline of bytes, 0 when there is none
RECURSIVE FirstNL(_, _)
FirstNL(bytes, i) ==
    IF i > Len(bytes) THEN 0
    ELSE IF bytes[i] = NL THEN i ELSE FirstNL(bytes, i + 1)

\* the records of bytes as BufRead::lines would cut them: each ends with its
\* newline, but for a last one cut short by the end of the stream
RECURSIVE SplitRecords(_)
SplitRecords(bytes) ==
    IF bytes = <<>> THEN <<>>
    ELSE LET n == FirstNL(bytes, 1)
         IN  IF n = 0 THEN <<bytes>>
             ELSE <<SubSeq(bytes, 1, n)>> \o SplitRecords(SubSeq(bytes, n + 1, Len(bytes)))

IsPrefix(s, t) == Len(s) <= Len(t) /\ SubSeq(t, 1, Len(s)) = s

----------------------------------------------------------------------------
(* App: the editor operations (impl App) *)

\* App::clamp_cursor: new_cursor_pos.clamp(0, self.input.len()), len in bytes
clamp_cursor(inp, new_cursor_pos) == Max(0, Min(new_cursor_pos, Len(inp)))

\* App::move_cursor_left: saturating_sub(1), then clamp
move_cursor_left(inp, cur) == clamp_cursor(inp, Max(cur - 1, 0))

\* App::move_cursor_right: saturating_add(1), then clamp
move_cursor_right(inp, cur) == clamp_cursor(inp, cur + 1)

\* String::insert panics unless idx is a char boundary of the string
InsertPanics(inp, idx) == ~IsCharBoundary(inp, idx)

\* App::enter_char: self.input.insert(self.cursor_position, new_char), then
\* move_cursor_right; the result is the new [input, cursor]
enter_char(inp, cur, new_char) ==
    LET inserted == StrInsert(inp, cur, new_char)
    IN  [input |-> inserted, cursor |-> move_cursor_right(inserted, cur)]

\* App::delete_char
delete_char(inp, cur) ==
    IF cur # 0
    THEN LET before_char_to_delete == Take(Chars(inp), cur - 1)
             after_char_to_delete == Skip(Chars(inp), cur)
             kept == Collect(before_char_to_delete \o after_char_to_delete)
         IN  [input |-> kept, cursor |-> move_cursor_left(kept, cur)]
    ELSE [input |-> inp, cursor |-> cur]

\* ui: the rows of the message list, the last Height entries as "> {m}"
FormatRow(m) == <<62, 32>> \o m
Window(log) ==
    LET from == Max(Len(log) - Height, 0)
    IN  [i \in 1..(Len(log) - from) |-> FormatRow(log[from + i])]

----------------------------------------------------------------------------
(* Key events (crossterm::event::KeyEvent: code and kind) *)

Key(code, ch, kind) == [code |-> code, ch |-> ch, kind |-> kind]
CharKey(ch) == Key("Char", ch, "Press")
EnterKey == Key("Enter", <<>>, "Press")
BackspaceKey == Key("Backspace", <<>>, "Press")
LeftKey == Key("Left", <<>>, "Press")
RightKey == Key("Right", <<>>, "Press")
EscKey == Key("Esc", <<>>, "Press")
TabKey == Key("Tab", <<>>, "Press")

\* the keys of the chat scenario
KeysChat == {CharKey(CharA), CharKey(CharI), EnterKey}
\* the keys of the scenario checked under fairness
KeysFair == {CharKey(CharI), CharKey(CharQ), EnterKey}
\* the keys of the editor scenario, with a multi-byte char and a key release
KeysEditor ==
    {CharKey(CharA), CharKey(CharEAcute), CharKey(CharI), CharKey(CharQ),
     EnterKey, BackspaceKey, LeftKey, RightKey, EscKey, TabKey,
     Key("Char", CharA, "Release")}

----------------------------------------------------------------------------
(* State after App::default(), the connection and the spawn of reciever *)

Init ==
    /\ input = <<>>
    /\ cursor_position = 0
    /\ input_mode = "Normal"
    /\ messages = <<>>
    /\ lockHolder = "none"
    /\ TERMINATE = FALSE
    /\ REDRAW = TRUE
    /\ mainpc = "cas"
    /\ recvpc = "while"
    /\ buf = <<>>
    /\ inbound = <<>>
    /\ inClosed = FALSE
    /\ outbound = <<>>
    /\ screen = [log |-> <<>>, input |-> <<>>, seen |-> 0]
    /\ wireHist = <<>>
    /\ nKeys = 0
    /\ nSubmit = 0
    /\ nRecv = 0
    /\ hadReadErr = FALSE
    /\ fresh = TRUE
    /\ claimed = FALSE
    /\ drawsInIter = 0
    /\ termStores = 0
    /\ recvOps = 0
    /\ unrendered = FALSE
    /\ peerSubmitted = <<>>
    /\ term = [raw |-> TRUE, alt |-> TRUE]
    /\ poisoned = FALSE
    /\ inBroken = FALSE
    /\ lastWrite = "none"

----------------------------------------------------------------------------
(* run_app: the event loop on the main thread *)

recvVars == <<recvpc, buf>>
MainDone ==
    mainpc \in {"done_ok", "done_err", "panicked", "leave_ok", "leave_err",
                "show_ok", "show_err", "exit_ok", "exit_err"}
\* the receiver thread and the connection live as long as the process: until
\* run_app returns to main, or the main thread panics
ProcessAlive == ~MainDone

\* a slip of compare_exchange: the flag is read with load() and never cleared
CompareExchange_LoadOnly ==
    /\ mainpc = "cas"
    /\ IF REDRAW
       THEN /\ mainpc' = "draw_lock"
            /\ claimed' = TRUE
            /\ fresh' = FALSE
       ELSE /\ mainpc' = "poll"
            /\ claimed' = FALSE
            /\ fresh' = fresh
    /\ drawsInIter' = 0
    /\ UNCHANGED <<term, poisoned, lastWrite, editorVars, messages,
                   lockHolder, TERMINATE, REDRAW, recvVars, peerVars,
                   outbound, screen, nKeys, nSubmit, histRecv, unrendered>>

\* a slip of compare_exchange: the match is on Ok(false), so a cleared flag
\* draws nothing
CompareExchange_NoDraw ==
    /\ mainpc = "cas"
    /\ REDRAW' = FALSE
    /\ fresh' = IF REDRAW THEN FALSE ELSE fresh
    /\ claimed' = REDRAW
    /\ mainpc' = "poll"
    /\ drawsInIter' = 0
    /\ UNCHANGED <<term, poisoned, lastWrite, editorVars, messages,
                   lockHolder, TERMINATE, recvVars, peerVars, outbound,
                   screen, nKeys, nSubmit, histRecv, unrendered>>

\* a slip of compare_exchange: the test-and-clear is done on TERMINATE too
CompareExchange_ClearsTerminate ==
    /\ mainpc = "cas"
    /\ IF REDRAW
       THEN /\ REDRAW' = FALSE
            /\ mainpc' = "draw_lock"
            /\ claimed' = TRUE
            /\ fresh' = FALSE
       ELSE /\ mainpc' = "poll"
            /\ claimed' = FALSE
            /\ UNCHANGED <<REDRAW, fresh>>
    /\ TERMINATE' = FALSE
    /\ drawsInIter' = 0
    /\ UNCHANGED <<term, poisoned, lastWrite, editorVars, messages,
                   lockHolder, recvVars, peerVars, outbound, screen, nKeys,
                   nSubmit, histRecv, unrendered>>

\* REDRAW.compare_exchange(true, false, AcqRel, Relaxed) at the top of the loop
CompareExchange ==
    /\ mainpc = "cas"
    /\ IF REDRAW
       THEN /\ REDRAW' = FALSE
            /\ mainpc' = "draw_lock"
            /\ claimed' = TRUE
            /\ fresh' = FALSE
       ELSE /\ mainpc' = "poll"
            /\ claimed' = FALSE
            /\ UNCHANGED <<REDRAW, fresh>>
    /\ drawsInIter' = 0
    /\ UNCHANGED <<term, poisoned, lastWrite, editorVars, messages,
                   lockHolder, TERMINATE, recvVars, peerVars, outbound,
                   screen, nKeys, nSubmit, histRecv, unrendered>>

\* terminal.draw(|f| ui(f, &app)): ui takes the lock of messages ...
DrawLock ==
    /\ mainpc = "draw_lock"
    /\ lockHolder = "none"
    /\ ~poisoned
    /\ lockHolder' = "main"
    /\ mainpc' = "draw"
    /\ UNCHANGED <<term, poisoned, editorVars, messages, TERMINATE, REDRAW,
                   recvVars, peerVars, outbound, screen, histMain, histFlag,
                   histRecv>>

\* ui: the Mutex is poisoned, lock() returns Err and unwrap() panics
DrawLockPoisoned ==
    /\ mainpc = "draw_lock"
    /\ lockHolder = "none"
    /\ poisoned
    /\ mainpc' = "panicked"
    /\ UNCHANGED <<term, poisoned, editorVars, messages, lockHolder,
                   TERMINATE, REDRAW, recvVars, peerVars, outbound, screen,
                   histMain, histFlag, histRecv>>

\* ... copies the window of the log, releases the lock and the frame is drawn
Draw ==
    /\ mainpc = "draw"
    /\ lockHolder = "main"
    /\ screen' = [log |-> Window(messages), input |-> input, seen |-> Len(messages)]
    /\ lockHolder' = "none"
    /\ drawsInIter' = Bump(drawsInIter)
    /\ unrendered' = FALSE
    /\ mainpc' = "poll"
    /\ UNCHANGED <<term, poisoned, lastWrite, editorVars, messages, TERMINATE,
                   REDRAW, recvVars, peerVars, outbound, nKeys, nSubmit,
                   claimed, fresh, histRecv>>

\* terminal.draw(..)? returns the backend's io::Error, before ui ran (the
\* autoresize) or after it (the flush): run_app returns Err
DrawErr ==
    /\ \/ mainpc = "draw_lock"
       \/ mainpc = "draw" /\ lockHolder = "main"
    /\ lockHolder' = IF mainpc = "draw" THEN "none" ELSE lockHolder
    /\ mainpc' = "done_err"
    /\ UNCHANGED <<term, poisoned, editorVars, messages, TERMINATE, REDRAW,
                   recvVars, peerVars, outbound, screen, histMain, histFlag,
                   histRecv>>

\* crossterm::event::poll(200 ms) returns Ok(false)
PollTimeout ==
    /\ mainpc = "poll"
    /\ mainpc' = "cas"
    /\ UNCHANGED <<term, poisoned, editorVars, messages, lockHolder,
                   TERMINATE, REDRAW, recvVars, peerVars, outbound, screen,
                   histMain, histFlag, histRecv>>

\* poll(..)? or event::read()? returns Err: run_app returns Err
PollErr ==
    /\ mainpc = "poll"
    /\ mainpc' = "done_err"
    /\ UNCHANGED <<term, poisoned, editorVars, messages, lockHolder,
                   TERMINATE, REDRAW, recvVars, peerVars, outbound, screen,
                   histMain, histFlag, histRecv>>

\* event::read() returns an event that is no Event::Key (mouse, resize)
OtherEvent ==
    /\ mainpc = "poll"
    /\ mainpc' = "cas"
    /\ UNCHANGED <<term, poisoned, editorVars, messages, lockHolder,
                   TERMINATE, REDRAW, recvVars, peerVars, outbound, screen,
                   histMain, histFlag, histRecv>>

\* the editor after the match on app.input_mode and key.code, and where the
\* main thread goes next
Dispatch(key) ==
    LET stay == [input |-> input, cursor |-> cursor_position, mode |-> input_mode,
                 pc |-> "cas"]
    IN  IF input_mode = "Normal"
        THEN IF key.code = "Char" /\ key.ch = CharI
             THEN [stay EXCEPT !.mode = "Editing"]
             ELSE IF key.code = "Char" /\ key.ch = CharQ
             THEN [stay EXCEPT !.pc = "done_ok"]
             ELSE stay
        ELSE IF key.kind # "Press" THEN stay
        ELSE CASE key.code = "Enter" -> [stay EXCEPT !.pc = "submit_lock"]
               [] key.code = "Char" ->
                    IF InsertPanics(input, cursor_position)
                    THEN [stay EXCEPT !.pc = "panicked"]
                    ELSE LET e == enter_char(input, cursor_position, key.ch)
                         IN  [stay EXCEPT !.input = e.input, !.cursor = e.cursor]
               [] key.code = "Backspace" ->
                    LET d == delete_char(input, cursor_position)
                    IN  [stay EXCEPT !.input = d.input, !.cursor = d.cursor]
               [] key.code = "Left" ->
                    [stay EXCEPT !.cursor = move_cursor_left(input, cursor_position)]
               [] key.code = "Right" ->
                    [stay EXCEPT !.cursor = move_cursor_right(input, cursor_position)]
               [] key.code = "Esc" -> [stay EXCEPT !.mode = "Normal"]
               [] OTHER -> stay

\* event::read() returns Event::Key(key): REDRAW.store(true), then the match
KeyEvent(key, maxKeys) ==
    /\ mainpc = "poll"
    /\ nKeys < maxKeys
    /\ nKeys' = nKeys + 1
    /\ REDRAW' = TRUE
    /\ fresh' = TRUE
    /\ unrendered' = TRUE
    /\ LET d == Dispatch(key)
       IN  /\ input' = d.input
           /\ cursor_position' = d.cursor
           /\ input_mode' = d.mode
           /\ mainpc' = d.pc
           /\ nSubmit' = IF d.pc = "submit_lock" THEN nSubmit + 1 ELSE nSubmit
    /\ UNCHANGED <<term, poisoned, lastWrite, messages, lockHolder, TERMINATE,
                   recvVars, peerVars, outbound, screen, claimed, drawsInIter,
                   histRecv>>

\* App::submit_message: self.messages.lock() ...
SubmitLock ==
    /\ mainpc = "submit_lock"
    /\ lockHolder = "none"
    /\ ~poisoned
    /\ lockHolder' = "main"
    /\ mainpc' = "submit_push"
    /\ UNCHANGED <<term, poisoned, editorVars, messages, TERMINATE, REDRAW,
                   recvVars, peerVars, outbound, screen, histMain, histFlag,
                   histRecv>>

\* App::submit_message: the Mutex is poisoned, lock() returns Err: the else
\* branch logs the error and the push is skipped
SubmitLockPoisoned ==
    /\ mainpc = "submit_lock"
    /\ lockHolder = "none"
    /\ poisoned
    /\ mainpc' = "submit_write"
    /\ UNCHANGED <<term, poisoned, editorVars, messages, lockHolder,
                   TERMINATE, REDRAW, recvVars, peerVars, outbound, screen,
                   histMain, histFlag, histRecv>>

\* ... lock.push(self.input.clone()), and the guard is dropped
SubmitPush ==
    /\ mainpc = "submit_push"
    /\ lockHolder = "main"
    /\ messages' = Push(messages, input)
    /\ lockHolder' = "none"
    /\ mainpc' = "submit_write"
    /\ UNCHANGED <<term, poisoned, editorVars, TERMINATE, REDRAW, recvVars,
                   peerVars, outbound, screen, histMain, histFlag, histRecv>>

\* the bytes writer.write_all(self.input.as_bytes()) puts on the stream
WireBytes(inp) == inp

\* slip of SubmitWrite: self.reset_cursor() is left out
SubmitWrite_NoReset ==
    /\ mainpc = "submit_write"
    /\ \E n \in 0..Len(WireBytes(input)) :
          /\ outbound' = outbound \o SubSeq(WireBytes(input), 1, n)
          /\ lastWrite' = IF n = Len(WireBytes(input)) THEN "ok" ELSE "err"
    /\ input' = <<>>
    /\ mainpc' = "cas"
    /\ UNCHANGED <<term, poisoned, cursor_position, input_mode, messages,
                   lockHolder, TERMINATE, REDRAW, recvVars, peerVars, screen,
                   nKeys, nSubmit, claimed, drawsInIter, histFlag, histRecv>>

\* slip of SubmitWrite: the error of write_all is returned with `?`
SubmitWrite_ErrReturns ==
    /\ mainpc = "submit_write"
    /\ \E n \in 0..Len(WireBytes(input)) :
          /\ outbound' = outbound \o SubSeq(WireBytes(input), 1, n)
          /\ lastWrite' = IF n = Len(WireBytes(input)) THEN "ok" ELSE "err"
          /\ IF n = Len(WireBytes(input))
             THEN input' = <<>> /\ cursor_position' = 0 /\ mainpc' = "cas"
             ELSE mainpc' = "done_err" /\ UNCHANGED <<input, cursor_position>>
    /\ UNCHANGED <<term, poisoned, input_mode, messages, lockHolder,
                   TERMINATE, REDRAW, recvVars, peerVars, screen, nKeys,
                   nSubmit, claimed, drawsInIter, histFlag, histRecv>>

\* writer.write_all(..) succeeds, or fails after a part of the bytes (the
\* error is logged); then self.input.clear() and self.reset_cursor()
SubmitWrite ==
    /\ mainpc = "submit_write"
    /\ \E n \in 0..Len(WireBytes(input)) :
          /\ outbound' = outbound \o SubSeq(WireBytes(input), 1, n)
          /\ lastWrite' = IF n = Len(WireBytes(input)) THEN "ok" ELSE "err"
    /\ input' = <<>>
    /\ cursor_position' = 0
    /\ mainpc' = "cas"
    /\ UNCHANGED <<term, poisoned, input_mode, messages, lockHolder,
                   TERMINATE, REDRAW, recvVars, peerVars, screen, nKeys,
                   nSubmit, claimed, drawsInIter, histFlag, histRecv>>

----------------------------------------------------------------------------
(* reciever: the receiver thread *)

mainVars == <<editorVars, mainpc, outbound, screen, histMain, term>>

\* while !TERMINATE.load(Acquire)
RecvWhile ==
    /\ ProcessAlive
    /\ recvpc = "while"
    /\ recvpc' = IF TERMINATE THEN "exited" ELSE "read_line"
    /\ UNCHANGED <<mainVars, poisoned, messages, lockHolder, TERMINATE,
                   REDRAW, buf, peerVars, histFlag, histRecv>>

\* reader.read_line(&mut buf) returns Ok(size), size > 0: the bytes up to and
\* with the first newline, or, at the end of the stream, the bytes left
ReadLine ==
    /\ ProcessAlive
    /\ recvpc = "read_line"
    /\ ~inBroken
    /\ LET n == FirstNL(inbound, 1)
           size == IF n > 0 THEN n ELSE Len(inbound)
       IN  /\ n > 0 \/ (inClosed /\ inbound # <<>>)
           /\ buf' = buf \o SubSeq(inbound, 1, size)
           /\ inbound' = SubSeq(inbound, size + 1, Len(inbound))
    /\ nRecv' = nRecv + 1
    /\ recvOps' = 1 - recvOps
    /\ recvpc' = "lock"
    /\ UNCHANGED <<mainVars, poisoned, messages, lockHolder, TERMINATE,
                   REDRAW, inClosed, inBroken, wireHist, peerSubmitted,
                   histFlag, hadReadErr, termStores>>

\* a slip of the zero-length branch: break 'read without the store
ReadZero_NoStore ==
    /\ ProcessAlive
    /\ recvpc = "read_line"
    /\ ~inBroken
    /\ inClosed /\ inbound = <<>>
    /\ recvOps' = 1 - recvOps
    /\ recvpc' = "exited"
    /\ UNCHANGED <<mainVars, poisoned, messages, lockHolder, TERMINATE,
                   REDRAW, buf, peerVars, histFlag, nRecv, hadReadErr,
                   termStores>>

\* read_line returns Ok(0), the peer closed the stream:
\* TERMINATE.store(true, Release); break 'read
ReadZero ==
    /\ ProcessAlive
    /\ recvpc = "read_line"
    /\ ~inBroken
    /\ inClosed /\ inbound = <<>>
    /\ TERMINATE' = TRUE
    /\ termStores' = Bump(termStores)
    /\ recvOps' = 1 - recvOps
    /\ recvpc' = "exited"
    /\ UNCHANGED <<mainVars, poisoned, messages, lockHolder, REDRAW, buf,
                   peerVars, histFlag, nRecv, hadReadErr>>

\* read_line returns Err(e), logged; the bytes of an unfinished line it had
\* taken from the stream are dropped with it; then buf.clear()
ReadErr ==
    /\ ProcessAlive
    /\ recvpc = "read_line"
    /\ \E taken \in BOOLEAN :
          /\ taken => FirstNL(inbound, 1) = 0
          /\ inbound' = IF taken THEN <<>> ELSE inbound
    /\ hadReadErr' = TRUE
    /\ recvOps' = 1 - recvOps
    /\ buf' = <<>>
    /\ recvpc' = "while"
    /\ UNCHANGED <<mainVars, poisoned, messages, lockHolder, TERMINATE,
                   REDRAW, inClosed, inBroken, wireHist, peerSubmitted,
                   histFlag, nRecv, termStores>>

\* if let Ok(mut lock) = dest.lock()
RecvLock ==
    /\ ProcessAlive
    /\ recvpc = "lock"
    /\ lockHolder = "none"
    /\ ~poisoned
    /\ lockHolder' = "recv"
    /\ recvpc' = "push"
    /\ UNCHANGED <<mainVars, poisoned, messages, TERMINATE, REDRAW, buf,
                   peerVars, histFlag, histRecv>>

\* a slip of the push: the new line is put first (insert(0, ..))
RecvPush_Front ==
    /\ ProcessAlive
    /\ recvpc = "push"
    /\ lockHolder = "recv"
    /\ messages' = <<Trim(buf)>> \o messages
    /\ recvOps' = 1 - recvOps
    /\ recvpc' = "store"
    /\ UNCHANGED <<mainVars, poisoned, lockHolder, TERMINATE, REDRAW, buf,
                   peerVars, histFlag, nRecv, hadReadErr, termStores>>

\* lock.push(buf.trim().to_string())
RecvPush ==
    /\ ProcessAlive
    /\ recvpc = "push"
    /\ lockHolder = "recv"
    /\ messages' = Push(messages, Trim(buf))
    /\ recvOps' = 1 - recvOps
    /\ recvpc' = "store"
    /\ UNCHANGED <<mainVars, poisoned, lockHolder, TERMINATE, REDRAW, buf,
                   peerVars, histFlag, nRecv, hadReadErr, termStores>>

\* a slip of the receiver: the store to REDRAW after the push is missing
RecvStore_NoStore ==
    /\ ProcessAlive
    /\ recvpc = "store"
    /\ recvOps' = 1 - recvOps
    /\ recvpc' = "unlock"
    /\ UNCHANGED <<mainVars, poisoned, messages, lockHolder, TERMINATE,
                   REDRAW, buf, peerVars, histFlag, nRecv, hadReadErr,
                   termStores>>

\* REDRAW.store(true, Release)
RecvStore ==
    /\ ProcessAlive
    /\ recvpc = "store"
    /\ REDRAW' = TRUE
    /\ fresh' = TRUE
    /\ unrendered' = TRUE
    /\ recvOps' = 1 - recvOps
    /\ recvpc' = "unlock"
    /\ UNCHANGED <<mainVars, poisoned, messages, lockHolder, TERMINATE, buf,
                   peerVars, nRecv, hadReadErr, termStores>>

\* a slip of the loop: buf.clear() is missing, and read_line appends
RecvUnlock_NoClear ==
    /\ ProcessAlive
    /\ recvpc = "unlock"
    /\ lockHolder = "recv"
    /\ lockHolder' = "none"
    /\ recvpc' = "while"
    /\ UNCHANGED <<mainVars, poisoned, messages, TERMINATE, REDRAW, buf,
                   peerVars, histFlag, histRecv>>

\* a slip of the loop: the guard outlives the if let and is still held when
\* the loop goes back to read_line
RecvUnlock_KeepsGuard ==
    /\ ProcessAlive
    /\ recvpc = "unlock"
    /\ lockHolder = "recv"
    /\ buf' = <<>>
    /\ recvpc' = "while"
    /\ UNCHANGED <<mainVars, poisoned, messages, lockHolder, TERMINATE, REDRAW,
                   peerVars, histFlag, histRecv>>

\* the guard is dropped at the end of the if let; buf.clear()
RecvUnlock ==
    /\ ProcessAlive
    /\ recvpc = "unlock"
    /\ lockHolder = "recv"
    /\ lockHolder' = "none"
    /\ buf' = <<>>
    /\ recvpc' = "while"
    /\ UNCHANGED <<mainVars, poisoned, messages, TERMINATE, REDRAW, peerVars,
                   histFlag, histRecv>>

\* dest.lock() returns Err on a poisoned Mutex: the if let is skipped, then
\* buf.clear(). (Only a panic of the main thread under the guard could make
\* the receiver find the Mutex poisoned, and that panic ends the process.)
RecvLockPoisoned ==
    /\ ProcessAlive
    /\ recvpc = "lock"
    /\ lockHolder = "none"
    /\ poisoned
    /\ buf' = <<>>
    /\ recvpc' = "while"
    /\ UNCHANGED <<mainVars, poisoned, messages, lockHolder, TERMINATE, REDRAW,
                   peerVars, histFlag, histRecv>>

\* the receiver thread panics while it holds the guard (Vec::push panics when
\* the new capacity overflows): the unwinding drops the guard, which poisons
\* the Mutex, and the thread is gone
RecvPushPanics ==
    /\ ProcessAlive
    /\ recvpc = "push"
    /\ lockHolder = "recv"
    /\ poisoned' = TRUE
    /\ lockHolder' = "none"
    /\ recvpc' = "panicked"
    /\ UNCHANGED <<mainVars, messages, TERMINATE, REDRAW, buf, peerVars,
                   histFlag, histRecv>>

----------------------------------------------------------------------------
(* The peer at the other end of the stream *)

localVars == <<mainVars, messages, lockHolder, poisoned, TERMINATE, REDRAW,
               recvVars, histFlag, histRecv>>

\* what an arbitrary peer writes at once: single bytes, or whole lines
PeerBytes == {<<97>>, <<32>>, <<NL>>}
PeerLines == {<<NL>>, <<97, NL>>}

\* an arbitrary peer writes a chunk of bytes
PeerWrite(chunk, maxWire) ==
    /\ ProcessAlive
    /\ ~inClosed
    /\ Len(wireHist) + Len(chunk) <= maxWire
    /\ inbound' = inbound \o chunk
    /\ wireHist' = wireHist \o chunk
    /\ UNCHANGED <<localVars, inClosed, inBroken, peerSubmitted>>

\* the peer closes the stream (or its process ends)
PeerClose ==
    /\ ProcessAlive
    /\ ~inClosed
    /\ inClosed' = TRUE
    /\ UNCHANGED <<localVars, inbound, inBroken, wireHist, peerSubmitted>>

\* the connection breaks for good (reset, network down): from now on every
\* read of the read half returns Err
ConnBreak ==
    /\ ProcessAlive
    /\ ~inBroken
    /\ ~inClosed
    /\ inBroken' = TRUE
    /\ UNCHANGED <<localVars, inbound, inClosed, wireHist, peerSubmitted>>

\* the inputs the user of a peer running this program submits
PeerInputs == {CharA, CharA \o CharI}

\* a peer running this program calls submit_message with input inp: its
\* write_all puts WireBytes(inp) on the stream
PeerSubmit(inp) ==
    /\ ProcessAlive
    /\ ~inClosed
    /\ Len(peerSubmitted) < MaxPeerMsgs
    /\ inbound' = inbound \o WireBytes(inp)
    /\ wireHist' = wireHist \o WireBytes(inp)
    /\ peerSubmitted' = Append(peerSubmitted, inp)
    /\ UNCHANGED <<localVars, inClosed, inBroken>>

----------------------------------------------------------------------------
(* main, init_terminal, reset_terminal: the terminal around run_app *)

\* the process starts: main before init_terminal, no receiver thread yet
InitMain ==
    /\ input = <<>>
    /\ cursor_position = 0
    /\ input_mode = "Normal"
    /\ messages = <<>>
    /\ lockHolder = "none"
    /\ TERMINATE = FALSE
    /\ REDRAW = TRUE
    /\ mainpc = "init_raw"
    /\ recvpc = "unspawned"
    /\ buf = <<>>
    /\ inbound = <<>>
    /\ inClosed = FALSE
    /\ outbound = <<>>
    /\ screen = [log |-> <<>>, input |-> <<>>, seen |-> 0]
    /\ wireHist = <<>>
    /\ nKeys = 0
    /\ nSubmit = 0
    /\ nRecv = 0
    /\ hadReadErr = FALSE
    /\ fresh = TRUE
    /\ claimed = FALSE
    /\ drawsInIter = 0
    /\ termStores = 0
    /\ recvOps = 0
    /\ unrendered = FALSE
    /\ peerSubmitted = <<>>
    /\ term = [raw |-> FALSE, alt |-> FALSE]
    /\ poisoned = FALSE
    /\ inBroken = FALSE
    /\ lastWrite = "none"

\* what the steps of main outside the event loop leave alone
aroundLoop ==
    <<editorVars, outbound, screen, histMain, messages, lockHolder, poisoned,
      TERMINATE, REDRAW, buf, peerVars, histFlag, histRecv>>

\* the value of res once reset_terminal is under way
ResOf(pc) == IF pc \in {"done_ok", "leave_ok", "show_ok"} THEN "ok" ELSE "err"

\* init_terminal: enable_raw_mode()?
EnableRawMode ==
    /\ mainpc = "init_raw"
    /\ \/ term' = [term EXCEPT !.raw = TRUE] /\ mainpc' = "init_alt"
       \/ term' = term /\ mainpc' = "exit_err"
    /\ UNCHANGED <<aroundLoop, recvpc>>

\* init_terminal: execute!(stdout, EnterAlternateScreen, EnableMouseCapture)?
EnterAlternateScreen ==
    /\ mainpc = "init_alt"
    /\ \/ term' = [term EXCEPT !.alt = TRUE] /\ mainpc' = "init_new"
       \/ term' = term /\ mainpc' = "exit_err"
    /\ UNCHANGED <<aroundLoop, recvpc>>

\* init_terminal: Terminal::new(backend), its Err returned by main's `?`
TerminalNew ==
    /\ mainpc = "init_new"
    /\ mainpc' \in {"connect", "exit_err"}
    /\ UNCHANGED <<aroundLoop, recvpc, term>>

\* run_app: bind and accept, or connect, then try_clone, each with `?`; on
\* success the receiver thread is spawned and the loop begins
Connect ==
    /\ mainpc = "connect"
    /\ \/ mainpc' = "cas" /\ recvpc' = "while"
       \/ mainpc' = "done_err" /\ recvpc' = recvpc
    /\ UNCHANGED <<aroundLoop, term>>

\* reset_terminal: disable_raw_mode()?
DisableRawMode ==
    /\ mainpc \in {"done_ok", "done_err"}
    /\ \/ /\ term' = [term EXCEPT !.raw = FALSE]
          /\ mainpc' = IF ResOf(mainpc) = "ok" THEN "leave_ok" ELSE "leave_err"
       \/ term' = term /\ mainpc' = "exit_err"
    /\ UNCHANGED <<aroundLoop, recvpc>>

\* reset_terminal: execute!(.., LeaveAlternateScreen, DisableMouseCapture)?
LeaveAlternateScreen ==
    /\ mainpc \in {"leave_ok", "leave_err"}
    /\ \/ /\ term' = [term EXCEPT !.alt = FALSE]
          /\ mainpc' = IF ResOf(mainpc) = "ok" THEN "show_ok" ELSE "show_err"
       \/ term' = term /\ mainpc' = "exit_err"
    /\ UNCHANGED <<aroundLoop, recvpc>>

\* reset_terminal: terminal.show_cursor()?, then main's res?
ShowCursor ==
    /\ mainpc \in {"show_ok", "show_err"}
    /\ \/ mainpc' = IF ResOf(mainpc) = "ok" THEN "exit_ok" ELSE "exit_err"
       \/ mainpc' = "exit_err"
    /\ UNCHANGED <<aroundLoop, recvpc, term>>

MainStep ==
    \/ EnableRawMode
    \/ EnterAlternateScreen
    \/ TerminalNew
    \/ Connect
    \/ DisableRawMode
    \/ LeaveAlternateScreen
    \/ ShowCursor

----------------------------------------------------------------------------
(* Specifications *)

\* the event loop with no key pressed
LoopStep ==
    \/ CompareExchange
    \/ DrawLock
    \/ Draw
    \/ DrawErr
    \/ PollTimeout
    \/ PollErr
    \/ OtherEvent

\* the handling of the keys of a scenario
KeyStep(keys, maxKeys) ==
    \/ \E key \in keys : KeyEvent(key, maxKeys)
    \/ SubmitLock
    \/ SubmitPush
    \/ SubmitWrite

RecvStep ==
    \/ RecvWhile
    \/ ReadLine
    \/ ReadZero
    \/ ReadErr
    \/ RecvLock
    \/ RecvPush
    \/ RecvStore
    \/ RecvUnlock

\* the chat: both threads, the keys of the chat, an arbitrary peer
Next ==
    \/ LoopStep
    \/ KeyStep(KeysChat, MaxKeys)
    \/ RecvStep
    \/ \E line \in PeerLines : PeerWrite(line, MaxChatWire)
    \/ PeerClose

Spec == Init /\ [][Next]_vars

\* an idle keyboard: the receiver thread and an arbitrary peer
NextRecv ==
    \/ LoopStep
    \/ RecvStep
    \/ \E b \in PeerBytes : PeerWrite(b, MaxWire)
    \/ PeerClose

SpecRecv == Init /\ [][NextRecv]_vars

\* the editor: every key, and a peer that sends nothing before it closes
NextEditor ==
    \/ LoopStep
    \/ KeyStep(KeysEditor, MaxEdKeys)
    \/ RecvWhile
    \/ ReadZero
    \/ ReadErr
    \/ PeerClose

SpecEditor == Init /\ [][NextEditor]_vars

\* end to end: the peer runs this program, the local keyboard is idle
NextE2E ==
    \/ LoopStep
    \/ RecvStep
    \/ \E inp \in PeerInputs : PeerSubmit(inp)
    \/ PeerClose

SpecE2E == Init /\ [][NextE2E]_vars

\* the chat again, smaller, with the scheduling the threads get: the main
\* thread always takes its next step (poll returns within 200 ms) and so does
\* the receiver thread; no key event and no byte of the peer is ever owed
NextFair ==
    \/ LoopStep
    \/ KeyStep(KeysFair, MaxFairKeys)
    \/ RecvStep
    \/ PeerWrite(<<NL>>, MaxFairWire)
    \/ PeerClose

FairSpec ==
    /\ Init
    /\ [][NextFair]_vars
    /\ WF_vars(LoopStep \/ KeyStep(KeysFair, MaxFairKeys))
    /\ WF_vars(RecvStep)

\* both threads under weak fairness, and a connection that may break
NextBroken ==
    \/ LoopStep
    \/ KeyStep(KeysFair, MaxFairKeys)
    \/ RecvStep
    \/ PeerWrite(<<NL>>, MaxFairWire)
    \/ PeerClose
    \/ ConnBreak

FairSpecBroken ==
    /\ Init
    /\ [][NextBroken]_vars
    /\ WF_vars(LoopStep \/ KeyStep(KeysFair, MaxFairKeys))
    /\ WF_vars(RecvStep)

\* the chat with a receiver thread that may panic under the guard
NextPoison ==
    \/ LoopStep
    \/ KeyStep(KeysFair, MaxFairKeys)
    \/ RecvStep
    \/ PeerWrite(<<NL>>, MaxFairWire)
    \/ PeerClose
    \/ RecvPushPanics
    \/ DrawLockPoisoned
    \/ SubmitLockPoisoned

SpecPoison == Init /\ [][NextPoison]_vars

\* the whole process: main from its start to its exit, a few keys, a
\* receiver that meets read errors only
NextMain ==
    \/ MainStep
    \/ LoopStep
    \/ KeyStep(KeysFair, MaxFairKeys)
    \/ RecvWhile
    \/ ReadErr

SpecMain == InitMain /\ [][NextMain]_vars

----------------------------------------------------------------------------
(* C1 *)

\* the receiver is inside read_line on an open stream that holds no whole line
RecvWaiting == recvpc = "read_line" /\ ~inClosed /\ FirstNL(inbound, 1) = 0

\* C1: every message the peer submitted is delivered while the connection
\* stays open: whenever the receiver has nothing left it can read (and no read
\* failed), the Message Log holds one entry per submitted message, equal to
\* it, in submission order.
C1_EndToEndDelivery ==
    (RecvWaiting /\ ~hadReadErr) => messages = peerSubmitted

----------------------------------------------------------------------------
(* C2 *)

\* the bytes reciever has taken from the stream
Consumed == SubSeq(wireHist, 1, Len(wireHist) - Len(inbound))

TrimAll(recs) == [i \in 1..Len(recs) |-> Trim(recs[i])]

\* C2: with no local submission and no read error, once the receiver has
\* processed the n lines it has read, the Message Log is exactly those n
\* lines, trimmed, in arrival order.
C2_LogIsReceivedLines ==
    (recvpc = "while" /\ ~hadReadErr /\ nSubmit = 0)
        => messages = TrimAll(SplitRecords(Consumed))

C2_Witness ==
    /\ recvpc = "while"
    /\ ~hadReadErr
    /\ Len(messages) = 2
    /\ messages[1] # messages[2]
    /\ inbound = <<>>

----------------------------------------------------------------------------
(* C3 *)

\* appends asked for and done: submit_message calls past their push, and
\* records read past theirs
AppendsDone ==
    (nSubmit - (IF mainpc \in {"submit_lock", "submit_push"} THEN 1 ELSE 0))
    + (nRecv - (IF recvpc \in {"lock", "push"} THEN 1 ELSE 0))

\* C3: under every interleaving of the two threads the log has exactly one
\* entry per append done, and every step leaves the log it found as a prefix
\* of the log it leaves (nothing lost, duplicated, removed or overwritten).
C3_AppendsNeverLost ==
    [][/\ Len(messages) = AppendsDone
       /\ Len(messages') = AppendsDone'
       /\ IsPrefix(messages, messages')]_vars

C3_Witness ==
    /\ nSubmit >= 1
    /\ nRecv >= 1
    /\ Len(messages) = nSubmit + nRecv
    /\ messages[1] # messages[Len(messages)]

----------------------------------------------------------------------------
(* C4 *)

\* C4 as claimed, in the form a finite run refutes: after every store of true
\* to REDRAW a render pass follows, so once the Event Loop has ended no store
\* is left without its render.
C4_RenderAfterEverySet == MainDone => ~unrendered

\* C4 as amended: after every store of true to REDRAW a render pass follows,
\* or the Event Loop has ended (the quit key, an error of draw or poll, a
\* panic) before it could render.
C4_RenderAfterSetWhileRunning == unrendered ~> (~unrendered \/ MainDone)

C4_Witness ==
    /\ ~unrendered
    /\ nRecv >= 1
    /\ nKeys >= 1
    /\ Len(screen.log) >= 1

----------------------------------------------------------------------------
(* C5 *)

\* C5: a render pass happens only in an iteration whose compare_exchange found
\* REDRAW true and cleared it, and only once in it; the flag is true only if a
\* producer stored it since the last successful test-and-clear, so two render
\* passes always have a producer's store between their test-and-clears.
C5_RenderOnlyOnClaimedSet ==
    [][/\ (mainpc = "draw" /\ mainpc' = "poll")
            => (claimed /\ drawsInIter = 0 /\ drawsInIter' = 1)
       /\ drawsInIter' <= 1
       /\ (mainpc = "cas" /\ mainpc' = "draw_lock") => (REDRAW /\ fresh /\ ~REDRAW')
       /\ (mainpc = "cas" /\ mainpc' = "poll") => ~REDRAW
       /\ REDRAW => fresh
       /\ REDRAW' => fresh']_vars

C5_Witness ==
    /\ mainpc = "poll"
    /\ drawsInIter = 1
    /\ nRecv >= 1
    /\ nKeys >= 1
    /\ ~REDRAW

----------------------------------------------------------------------------
(* C6 *)

\* C6: once TERMINATE is true, the Event Loop at the top of its loop (its
\* check point) does nothing but end.
C6_LoopEndsOnTerminate ==
    [][(TERMINATE /\ mainpc = "cas" /\ mainpc' # mainpc) => MainDone']_vars

----------------------------------------------------------------------------
(* C7 *)

\* C7: TERMINATE is stored at most once, and only by the step that ends the
\* receiver; the receiver ends with TERMINATE true; and once ended it stays
\* ended and does nothing: no read, no push, no store to either flag.
C7_ZeroReadIsTerminal ==
    [][/\ termStores' <= 1
       /\ (termStores' # termStores) => (recvpc = "read_line" /\ recvpc' = "exited")
       /\ (recvpc' = "exited") => (TERMINATE' /\ termStores' = 1)
       /\ (recvpc = "exited")
            => /\ recvpc' = "exited"
               /\ recvOps' = recvOps
               /\ termStores' = termStores
               /\ nRecv' = nRecv
               /\ hadReadErr' = hadReadErr
               /\ buf' = buf
               /\ inbound' = inbound
               /\ messages' = messages]_vars

C7_Witness ==
    /\ recvpc = "exited"
    /\ termStores = 1
    /\ Len(messages) >= 1
    /\ mainpc = "poll"
    /\ drawsInIter = 0

----------------------------------------------------------------------------
(* C8 *)

\* C8: TERMINATE is false until its first store, and no step of either thread
\* takes it from true to false.
C8_TerminateMonotonic ==
    [][/\ (termStores = 0) => ~TERMINATE
       /\ TERMINATE => TERMINATE']_vars

C8_Witness ==
    /\ TERMINATE
    /\ mainpc = "submit_write"
    /\ ~claimed

----------------------------------------------------------------------------
(* C9 *)

\* C9: no editor operation faults: every insert finds the cursor on a
\* character boundary of the input.
C9_EditsNeverFault == mainpc # "panicked"

----------------------------------------------------------------------------
(* C10 *)

\* C10: the cursor position is at most the number of characters of the input.
C10_CursorWithinChars ==
    cursor_position >= 0 /\ cursor_position <= Len(Chars(input))

----------------------------------------------------------------------------
(* C11 *)

\* the positions of the main thread inside App::submit_message
InSubmit == mainpc \in {"submit_lock", "submit_push", "submit_write"}

\* C11: Enter in Editing mode with the input s starts a submission that
\* appends exactly one entry equal to s to the Message Log, hands the bytes of
\* s to write_all (all of them reach the connection when it returns Ok, a
\* prefix when it fails), and ends with the input empty, the cursor at 0 and
\* the mode still Editing.
C11_SubmitStep ==
    [][/\ (KeyEvent(EnterKey, MaxEdKeys) /\ input_mode = "Editing") =>
             /\ mainpc' = "submit_lock"
             /\ input' = input
             /\ messages' = messages
             /\ outbound' = outbound
       /\ InSubmit => input_mode = "Editing" /\ input_mode' = "Editing"
       /\ (InSubmit /\ mainpc # "submit_write") => input' = input
       /\ (mainpc = "submit_lock" /\ mainpc' # mainpc) => mainpc' = "submit_push"
       /\ (mainpc = "submit_push" /\ mainpc' # mainpc) =>
             /\ mainpc' = "submit_write"
             /\ messages' = Append(messages, input)
       /\ (mainpc = "submit_write" /\ mainpc' # mainpc) =>
             /\ mainpc' = "cas"
             /\ IsPrefix(outbound, outbound')
             /\ IsPrefix(outbound', outbound \o input)
             /\ (lastWrite' = "ok") => (outbound' = outbound \o input)
             /\ input' = <<>>
             /\ cursor_position' = 0
       /\ (messages' # messages) => mainpc = "submit_push"
       /\ (outbound' # outbound) => mainpc = "submit_write"]_vars

\* the keys i, e-acute, Enter: the submission of a two-byte input is complete
C11_Witness ==
    /\ nKeys = 3
    /\ mainpc = "cas"
    /\ lastWrite = "ok"
    /\ messages = <<CharEAcute>>
    /\ outbound = CharEAcute
    /\ input = <<>>
    /\ cursor_position = 0
    /\ input_mode = "Editing"

----------------------------------------------------------------------------
(* C12 *)

\* C12: when write_all fails during a submission, the submitted entry is in
\* the Message Log and stays there, the input is cleared, the cursor is reset,
\* and the Event Loop goes on to its next iteration.
C12_FailedWriteNotFatal ==
    [][(mainpc = "submit_write" /\ mainpc' # mainpc /\ lastWrite' = "err") =>
          /\ messages # <<>>
          /\ messages[Len(messages)] = input
          /\ messages' = messages
          /\ input' = <<>>
          /\ cursor_position' = 0
          /\ input_mode' = input_mode
          /\ mainpc' = "cas"]_vars

\* the keys i, a, Enter, a: after the failed write of "a", a key is accepted
C12_Witness ==
    /\ lastWrite = "err"
    /\ messages = <<CharA>>
    /\ outbound = <<>>
    /\ input = CharA
    /\ cursor_position = 1
    /\ mainpc = "cas"

----------------------------------------------------------------------------
(* C13 *)

\* the sequence cs without its i-th element
RemoveAt(cs, i) == SubSeq(cs, 1, i - 1) \o SubSeq(cs, i + 1, Len(cs))

\* C13: Backspace in Editing mode deletes exactly the character immediately
\* before the cursor and moves the cursor left by one, leaving every other
\* character unchanged; with the cursor at 0 it changes nothing.
C13_BackspaceDeletesBeforeCursor ==
    [][(KeyEvent(BackspaceKey, MaxEdKeys) /\ input_mode = "Editing") =>
          IF cursor_position = 0
          THEN input' = input /\ cursor_position' = 0
          ELSE /\ cursor_position <= Len(Chars(input))
               /\ Chars(input') = RemoveAt(Chars(input), cursor_position)
               /\ cursor_position' = cursor_position - 1]_vars

----------------------------------------------------------------------------
(* C14 *)

\* main has returned: the process reports its outcome
ProcessExited == mainpc \in {"exit_ok", "exit_err"}

\* C14: on every path to the exit of the process, raw mode and the alternate
\* screen are both off when the process reports its outcome.
C14_TerminalRestoredAtExit == ProcessExited => (~term.raw /\ ~term.alt)

----------------------------------------------------------------------------
(* C15 *)

\* a record without its terminating newline
StripTerminator(rec) ==
    IF rec # <<>> /\ rec[Len(rec)] = NL THEN SubSeq(rec, 1, Len(rec) - 1) ELSE rec

StripAll(recs) == [i \in 1..Len(recs) |-> StripTerminator(recs[i])]

\* C15: every entry the receiver appends is the record it read with only the
\* terminating newline removed: leading, interior and trailing whitespace of
\* the message are kept.
C15_OnlyTerminatorRemoved ==
    (recvpc = "while" /\ ~hadReadErr /\ nSubmit = 0)
        => messages = StripAll(SplitRecords(Consumed))

----------------------------------------------------------------------------
(* C16 *)

\* C16: once every read of the read half returns an error, the loop of the
\* receiver ends (unless the process ends first).
C16_BrokenReadEndsReceiver == inBroken ~> (recvpc = "exited" \/ MainDone)

----------------------------------------------------------------------------
(* C17 *)

\* C17: when a thread finds the Mutex of the Message Log poisoned, it skips
\* what it wanted the lock for and goes on: the step changes no entry of the
\* log and does not abort the process.
C17_PoisonedLockIsSkipped ==
    [][(poisoned /\ mainpc \in {"draw_lock", "submit_lock"} /\ mainpc' # mainpc)
          => (mainpc' # "panicked" /\ messages' = messages)]_vars

----------------------------------------------------------------------------
(* C18 *)

\* C18: no thread holds the lock of the Message Log while it is inside a call
\* that blocks (the receiver's read_line, the write of a submission, the poll
\* of the terminal): the lock is held only over a push and its store or over
\* the copy of the window; and a thread that waits for the lock waits for a
\* holder whose next step is not blocked.
C18_NoLockAcrossBlockingCall ==
    /\ (recvpc = "read_line") => (lockHolder # "recv")
    /\ (mainpc \in {"poll", "submit_write"}) => (lockHolder # "main")
    /\ (lockHolder = "recv") => (recvpc \in {"push", "store", "unlock"})
    /\ (lockHolder = "main") => (mainpc \in {"draw", "submit_push"})
    /\ (mainpc \in {"draw_lock", "submit_lock"} /\ lockHolder = "recv")
          => ENABLED (RecvPush \/ RecvStore \/ RecvUnlock)
    /\ (recvpc = "lock" /\ lockHolder = "main")
          => ENABLED (Draw \/ SubmitPush)

\* the main thread waits in submit_message for the guard the receiver holds
C18_Witness ==
    /\ mainpc = "submit_lock"
    /\ lockHolder = "recv"
    /\ recvpc = "store"

----------------------------------------------------------------------------
(* C19 *)

\* an append is under way: a thread is between taking the lock for a push and
\* the end of the push and its store
AppendInProgress ==
    \/ recvpc \in {"push", "store"}
    \/ mainpc \in {"submit_lock", "submit_push"}

\* a render pass is under way: from the cleared flag to the drawn frame
RenderInProgress == mainpc \in {"draw_lock", "draw"}

\* the log holds an entry appended after the last render pass took its copy
Stale == Len(messages) > screen.seen

\* C19 as claimed: in no state is REDRAW false, no append and no render pass
\* under way, and the log stale.
C19_NoStaleRest ==
    (~REDRAW /\ ~AppendInProgress /\ ~RenderInProgress) => ~Stale

\* C19 as amended: while the Event Loop runs, in no state is REDRAW false, no
\* append and no render pass under way, and the log stale.
C19_NoStaleRestWhileRunning ==
    (~MainDone /\ ~REDRAW /\ ~AppendInProgress /\ ~RenderInProgress) => ~Stale

\* at rest in poll with a received and a submitted entry, both rendered
C19_Witness ==
    /\ ~REDRAW
    /\ mainpc = "poll"
    /\ recvpc = "read_line"
    /\ nRecv >= 1
    /\ nSubmit >= 1
    /\ Len(messages) = 2
    /\ screen.seen = 2

----------------------------------------------------------------------------
(* C20 *)

\* the characters cs with the character ch inserted somewhere
InsertedIn(cs, ch, cs2) ==
    \E j \in 0..Len(cs) : cs2 = Take(cs, j) \o <<ch>> \o Skip(cs, j)

\* C20: the mode is Normal before the first key and changes only by 'i' in
\* Normal mode (to Editing) and by Esc in Editing mode (to Normal); 'q' ends
\* the Event Loop only in Normal mode, in Editing mode it is inserted as
\* text and the loop goes on; and no key in Normal mode changes the input,
\* the cursor, the Message Log or what was written to the connection.
C20_ModeMachine ==
    [][/\ (nKeys = 0) => (input_mode = "Normal")
       /\ (input_mode' # input_mode) =>
             \/ /\ input_mode = "Normal"
                /\ input_mode' = "Editing"
                /\ KeyEvent(CharKey(CharI), MaxEdKeys)
             \/ /\ input_mode = "Editing"
                /\ input_mode' = "Normal"
                /\ KeyEvent(EscKey, MaxEdKeys)
       /\ \A k \in KeysEditor :
             (KeyEvent(k, MaxEdKeys) /\ input_mode = "Normal") =>
                /\ input' = input
                /\ cursor_position' = cursor_position
                /\ messages' = messages
                /\ outbound' = outbound
                /\ MainDone' <=> (k = CharKey(CharQ))
       /\ (KeyEvent(CharKey(CharQ), MaxEdKeys) /\ input_mode = "Editing") =>
             /\ ~MainDone'
             /\ InsertedIn(Chars(input), CharQ, Chars(input'))]_vars

====
